---- MODULE Spec2Model ----
(***************************************************************************)
(* A model of dyb881/fetch-request (src/src/index.ts): the configuration   *)
(* merge of createRequest/request, the body synthesis of toBody, the       *)
(* timeout race of requestFunction and the promise chain of request.       *)
(*                                                                         *)
(* JavaScript values are modelled as follows.                              *)
(*  - a configuration object is a function whose DOMAIN is the set of its  *)
(*    own keys; Object.assign and object spread are the right-biased       *)
(*    override Assign;                                                     *)
(*  - a data value is a node [t, v, kids]: t is the JavaScript kind,       *)
(*    v the text of a primitive (or the name of a File), kids the own      *)
(*    enumerable entries <<[k, n], ...>> in insertion order;               *)
(*  - a request body is [kind, text, entries]: kind "undefined", "string"  *)
(*    or "FormData"; entries are the appended <<name, value>> pairs;       *)
(*  - promises settle through a FIFO microtask queue (jobs); timers and    *)
(*    transport events are macrotasks and run only when it is empty.       *)
(***************************************************************************)
EXTENDS Integers, Sequences, FiniteSets, TLC

VARIABLES
  host,                  \* FetchRequest.host
  apiPath,               \* FetchRequest.apiPath
  defaultConfig,         \* FetchRequest.defaultConfig after the constructor
  interceptorsRequest,   \* which request interceptor is installed
  interceptorsResponse,  \* which response interceptor is installed
  pc,                    \* position of the call: idle, pending, thrown, resolved
  callArgs,              \* the arguments of the verb call, as given
  merged,                \* the configuration handed to interceptorsRequest
  config,                \* the configuration used downstream of the interceptor
  aborted,               \* controller.signal.aborted
  timer,                 \* the setTimeout of requestFunction: none, armed, fired
  fetchP,                \* the promise returned by fetch(): [state, value]
  bodyP,                 \* the promise returned by response.json(): [state, value]
  raceP,                 \* the promise returned by Promise.race: [state, value]
  reqP,                  \* the promise returned by requestFunction: [state, value]
  jobs,                  \* the microtask queue
  result,                \* the value the call resolved to
  events,                \* the steps taken so far, in order: interceptorsRequest,
                         \* toBody, fetch, settle (of fetch), timer, interceptorsResponse
  tbIn,                  \* toBody harness: the configuration given to toBody
  tbOut                  \* toBody harness: what toBody produced

vars == <<host, apiPath, defaultConfig, interceptorsRequest, interceptorsResponse,
          pc, callArgs, merged, config, aborted, timer, fetchP, bodyP, raceP, reqP,
          jobs,
          result, events, tbIn, tbOut>>

----------------------------------------------------------------------------
(* Bounds of the model *)

\* longest chain of nested objects in a data sample
MaxDepth == 3
\* largest number of fields in a flat data sample
MaxWidth == 3
\* largest number of override fragments after (url, data) in a verb call
MaxFragments == 2

----------------------------------------------------------------------------
(* Data values *)

Undefined == [t |-> "undefined", v |-> "", kids |-> <<>>]
Null == [t |-> "null", v |-> "", kids |-> <<>>]
Str(s) == [t |-> "string", v |-> s, kids |-> <<>>]
Num(s) == [t |-> "number", v |-> s, kids |-> <<>>]
FileV(name) == [t |-> "File", v |-> name, kids |-> <<>>]
Obj(kids) == [t |-> "object", v |-> "", kids |-> kids]
Arr(kids) == [t |-> "array", v |-> "", kids |-> kids]
FormDataV(kids) == [t |-> "FormData", v |-> "", kids |-> kids]
KV(k, n) == [k |-> k, n |-> n]

\* typeof item === 'object'
TypeofObject(n) == n.t \in {"object", "array", "null", "File", "FormData"}

RECURSIVE Join(_, _)
Join(strs, sep) ==
  IF strs = <<>> THEN ""
  ELSE IF Len(strs) = 1 THEN strs[1]
  ELSE strs[1] \o sep \o Join(Tail(strs), sep)

\* String.prototype.includes, which is what new RegExp(key).test(s) amounts to
\* for the keys of erroText (none has a regular-expression metacharacter).
Contains(s, p) ==
  \E i \in 1..(Len(s) - Len(p) + 1) : SubSeq(s, i, i + Len(p) - 1) = p

\* /^http/.test(url)
StartsWithHttp(url) == Len(url) >= 4 /\ SubSeq(url, 1, 4) = "http"

\* qs.stringify of one value under the already encoded key prefix: a list of
\* "key=value" pairs. undefined is skipped, null is written as the empty
\* string, objects and arrays are flattened as prefix[key] with the brackets
\* percent-encoded (qs defaults: arrayFormat indices, encode true).
RECURSIVE qsValue(_, _)
RECURSIVE qsKids(_, _)
qsValue(prefix, n) ==
  CASE n.t = "undefined" -> <<>>
    [] n.t = "null" -> <<prefix \o "=">>
    [] n.t \in {"string", "number"} -> <<prefix \o "=" \o n.v>>
    [] n.t \in {"object", "array"} -> qsKids(prefix, n.kids)
    [] OTHER -> <<>>
qsKids(prefix, kids) ==
  IF kids = <<>> THEN <<>>
  ELSE LET k == Head(kids).k
           p == IF prefix = "" THEN k ELSE prefix \o "%5B" \o k \o "%5D"
       IN qsValue(p, Head(kids).n) \o qsKids(prefix, Tail(kids))

\* qs.stringify(data): '' unless data is an object
qsStringify(data) ==
  IF data.t \in {"object", "array"} THEN Join(qsKids("", data.kids), "&") ELSE ""

\* JSON.stringify text of a value that is not undefined
RECURSIVE jsonText(_)
RECURSIVE jsonFields(_, _)
jsonText(n) ==
  CASE n.t = "string" -> "\"" \o n.v \o "\""
    [] n.t = "number" -> n.v
    [] n.t = "null" -> "null"
    [] n.t = "object" -> "{" \o Join(jsonFields(n.kids, FALSE), ",") \o "}"
    [] n.t = "array" -> "[" \o Join(jsonFields(n.kids, TRUE), ",") \o "]"
    [] OTHER -> "{}"
jsonFields(kids, inArray) ==
  IF kids = <<>> THEN <<>>
  ELSE LET h == Head(kids)
           one == IF inArray
                  THEN <<IF h.n.t = "undefined" THEN "null" ELSE jsonText(h.n)>>
                  ELSE IF h.n.t = "undefined" THEN <<>>
                  ELSE <<"\"" \o h.k \o "\":" \o jsonText(h.n)>>
       IN one \o jsonFields(Tail(kids), inArray)

(* Request bodies *)
BodyUndefined == [kind |-> "undefined", text |-> "", entries |-> <<>>]
BodyString(s) == [kind |-> "string", text |-> s, entries |-> <<>>]
BodyFormData(es) == [kind |-> "FormData", text |-> "", entries |-> es]

\* what FormData.append stores for a leaf value
AppendedValue(n) ==
  CASE n.t = "File" -> "File:" \o n.v
    [] n.t = "undefined" -> "undefined"
    [] OTHER -> n.v

\* The for-loop of getFormData over Object.entries(data), accumulating into
\* [threw, entries]. A nested FormData is returned by the recursive call and
\* dropped by the caller; Object.entries(null) throws.
RECURSIVE getFormDataLoop(_, _, _)
getFormDataLoop(kids, key, acc) ==
  IF acc.threw \/ kids = <<>> THEN acc
  ELSE LET i == Head(kids).k
           item == Head(kids).n
           k == IF key = "" THEN i ELSE key \o "[" \o i \o "]"
           step ==
             IF TypeofObject(item) /\ item.t # "File"
             THEN CASE item.t = "FormData" -> acc
                    [] item.t = "null" -> [acc EXCEPT !.threw = TRUE]
                    [] OTHER -> getFormDataLoop(item.kids, k, acc)
             ELSE [acc EXCEPT !.entries = Append(@, <<k, AppendedValue(item)>>)]
       IN getFormDataLoop(Tail(kids), key, step)

\* getFormData(data): [threw, body]
getFormData(data) ==
  CASE data.t = "FormData" ->
         [threw |-> FALSE,
          body |-> BodyFormData([j \in 1..Len(data.kids) |->
                                   <<data.kids[j].k, AppendedValue(data.kids[j].n)>>])]
    [] data.t \in {"undefined", "null"} -> [threw |-> TRUE, body |-> BodyUndefined]
    [] OTHER ->
         LET r == getFormDataLoop(data.kids, "", [threw |-> FALSE, entries |-> <<>>])
         IN [threw |-> r.threw, body |-> BodyFormData(r.entries)]

----------------------------------------------------------------------------
(* Configurations *)

\* Object.assign(a, b) and {...a, ...b}: the keys of b override those of a
Assign(a, b) == b @@ a

\* a configuration without one key: the rest of a destructuring
Without(c, key) == [k \in (DOMAIN c) \ {key} |-> c[k]]

Has(c, key) == key \in DOMAIN c

EmptyObject == [k \in {} |-> ""]

application == [json |-> "application/json", form |-> "application/x-www-form-urlencoded"]

ContentTypeKeys == <<"Content-Type", "Content-type", "content-Type", "content-type">>

\* the step of the reduce as it would be were it written c || headers[i]
ContentTypeStepKeepFirst(c, headers, i) ==
  IF c # "" THEN c
  ELSE IF i \in DOMAIN headers /\ headers[i] # "" THEN headers[i] ELSE c

\* One step of the reduce of toBody: (config.headers && config.headers[i]) || c
ContentTypeStep(c, headers, i) ==
  IF i \in DOMAIN headers /\ headers[i] # "" THEN headers[i] ELSE c

RECURSIVE ContentTypeReduce(_, _, _)
ContentTypeReduce(c, headers, n) ==
  IF n > Len(ContentTypeKeys) THEN c
  ELSE ContentTypeReduce(ContentTypeStep(c, headers, ContentTypeKeys[n]), headers, n + 1)

\* the contentType computed by toBody
contentTypeOf(c) ==
  IF Has(c, "headers") THEN ContentTypeReduce("", c["headers"], 1) ELSE ""

dataOf(c) == IF Has(c, "data") THEN c["data"] ELSE Undefined

\* the GET branch of toBody as it would be with the '?' left out
toBodyGetNoSeparator(c) ==
  LET params == qsStringify(dataOf(c))
  IN IF params # "" THEN [c EXCEPT !["url"] = @ \o params] ELSE c

\* toBody for method GET: append the query string to url
toBodyGet(c) ==
  LET params == qsStringify(dataOf(c))
  IN IF params # "" THEN [c EXCEPT !["url"] = @ \o "?" \o params] ELSE c

\* applicationToBodyFun[contentType](data), or getFormData(data): [threw, body]
toBodyFun(contentType, data) ==
  CASE contentType = "" -> getFormData(data)
    [] contentType = application.json ->
         [threw |-> FALSE,
          body |-> IF data.t = "undefined" THEN BodyUndefined ELSE BodyString(jsonText(data))]
    [] contentType = application.form ->
         [threw |-> FALSE, body |-> BodyString(qsStringify(data))]
    [] OTHER -> [threw |-> TRUE, body |-> BodyUndefined]

\* toBody as it would be were a body already in the configuration kept
toBodyKeepBody(c) ==
  IF Has(c, "method") /\ c["method"] = "GET"
  THEN [threw |-> FALSE, config |-> toBodyGet(c)]
  ELSE LET r == toBodyFun(contentTypeOf(c), dataOf(c))
       IN IF r.threw THEN [threw |-> TRUE, config |-> c]
          ELSE [threw |-> FALSE,
                config |-> IF Has(c, "body") THEN c ELSE Assign(c, "body" :> r.body)]

\* toBody(config): [threw, config]
toBody(c) ==
  IF Has(c, "method") /\ c["method"] = "GET"
  THEN [threw |-> FALSE, config |-> toBodyGet(c)]
  ELSE LET r == toBodyFun(contentTypeOf(c), dataOf(c))
       IN IF r.threw THEN [threw |-> TRUE, config |-> c]
          ELSE [threw |-> FALSE, config |-> Assign(c, "body" :> r.body)]

----------------------------------------------------------------------------
(* The facade *)

\* FetchRequest.defaultConfig as the class initialises it
BuiltinDefaults ==
  [mode |-> "cors", method |-> "GET", cache |-> "default", credentials |-> "omit",
   responseType |-> "json",
   headers |-> ("Accept" :> application.json) @@ ("Content-Type" :> application.json),
   timeout |-> 5000]

\* the defaultConfig argument of the constructor
InstanceDefaults ==
  { EmptyObject,
    [timeout |-> 3000],
    [url |-> "/x", label |-> "D", responseType |-> "text"] }

\* host and apiPath: the class defaults, or those of the README
BasePaths == { [host |-> "", apiPath |-> ""],
               [host |-> "http://localhost", apiPath |-> "/api"] }
InterceptorKinds == {"identity", "custom"}

\* get baseURL()
baseURL == host \o apiPath

\* labelToConfig(config)
labelToConfig(f) == IF f.str THEN [label |-> f.s] ELSE f.o

StrFrag(s) == [str |-> TRUE, s |-> s, o |-> EmptyObject]
ObjFrag(o) == [str |-> FALSE, s |-> "", o |-> o]

\* override fragments a caller may pass after (url, data)
Fragments ==
  { StrFrag("tag"),
    ObjFrag([label |-> "tag"]),
    ObjFrag([label |-> "A"]),
    ObjFrag([headers |-> ("Content-Type" :> "text/plain")]),
    ObjFrag([headers |-> ("Content-Type" :> application.form)
                         @@ ("content-type" :> application.json)]),
    ObjFrag([body |-> BodyString("raw")]),
    ObjFrag([url |-> "http://localhost/api/test/new",
             data |-> Obj(<<KV("id", Num("2000"))>>)]) }

RECURSIVE SeqsUpTo(_, _)
SeqsUpTo(S, n) ==
  IF n = 0 THEN {<<>>}
  ELSE LET shorter == SeqsUpTo(S, n - 1)
       IN shorter \cup {Append(q, x) : q \in {r \in shorter : Len(r) = n - 1}, x \in S}

\* the verb entry points: createRequest(method, configs)
Verbs ==
  { [name |-> "get", method |-> "GET", seeded |-> FALSE, configs |-> EmptyObject],
    [name |-> "post", method |-> "POST", seeded |-> FALSE, configs |-> EmptyObject],
    [name |-> "put", method |-> "PUT", seeded |-> FALSE, configs |-> EmptyObject],
    [name |-> "patch", method |-> "PATCH", seeded |-> FALSE, configs |-> EmptyObject],
    [name |-> "del", method |-> "DELETE", seeded |-> FALSE, configs |-> EmptyObject],
    [name |-> "upload", method |-> "POST", seeded |-> TRUE,
     configs |-> [headers |-> EmptyObject]] }

CallUrls == {"/test", "http://localhost/api/test"}
CallData == {Undefined, Obj(<<KV("id", Num("1000"))>>)}

\* Object.assign(target, ...args.map(labelToConfig)), left to right
RECURSIVE AssignAll(_, _)
AssignAll(target, args) ==
  IF args = <<>> THEN target
  ELSE AssignAll(Assign(target, labelToConfig(Head(args))), Tail(args))

\* the argument createRequest hands to request:
\* Object.assign({ method, url, data }, configs, ...args.map(labelToConfig))
createRequest(verb, url, data, args) ==
  AssignAll(Assign([method |-> verb.method, url |-> url, data |-> data],
                   IF verb.seeded THEN verb.configs ELSE EmptyObject),
            args)

\* request's merge as it would be without the /^http/ test
requestMergeAlwaysPrefixed(configs) ==
  LET url == IF Has(configs, "url") THEN configs["url"] ELSE ""
  IN Assign(Assign([url |-> baseURL \o url], defaultConfig), Without(configs, "url"))

\* let { url = '', ...config } = configs; prefix; { url, ...defaultConfig, ...config }
requestMerge(configs) ==
  LET url == IF Has(configs, "url") THEN configs["url"] ELSE ""
      prefixed == IF StartsWithHttp(url) THEN url ELSE baseURL \o url
  IN Assign(Assign([url |-> prefixed], defaultConfig), Without(configs, "url"))

\* this.interceptorsRequest(config): the identity, or a user interceptor that
\* returns a new configuration (here: with an Authorization header and a label)
ApplyInterceptorsRequest(c) ==
  IF interceptorsRequest = "identity" THEN c
  ELSE Assign(c, [label |-> "intercepted",
                  headers |-> Assign(IF Has(c, "headers") THEN c["headers"] ELSE EmptyObject,
                                     "Authorization" :> "token")])

\* this.interceptorsResponse(res, config): the identity, or the interceptor of
\* the README, which sets res.ok = !res.errorText
ApplyInterceptorsResponse(res, c) ==
  IF interceptorsResponse = "identity" THEN res
  ELSE Assign(res, "ok" :> ~Has(res, "errorText"))

\* The texts of erroText, written here by their English meaning: the source
\* has them in Chinese (erroText.timeout, the text shared by the three
\* address errors, and the text erroToText returns when no key matches).
TimeoutText == "network connection timeout"
AddressErrorText == "request address error"
OtherErrorText == "other error"

\* erroToText(error): the first key of erroText that matches decides
erroToText(error) ==
  CASE Contains(error, "timeout") -> TimeoutText
    [] Contains(error, "Network Error") -> AddressErrorText
    [] Contains(error, "Failed to fetch") -> AddressErrorText
    [] Contains(error, "request:fail") -> AddressErrorText
    [] OTHER -> OtherErrorText

\* statisticalTime()(): the timing record
TimeRecord == [start |-> "start", end |-> "end", total |-> "total"]

Pending == [state |-> "pending", value |-> ""]
NoPromise == [state |-> "none", value |-> ""]
Fulfilled(v) == [state |-> "fulfilled", value |-> v]
Rejected(v) == [state |-> "rejected", value |-> v]

AbortError == "AbortError: The operation was aborted."

\* what fetch() may settle with: a Response whose body is JSON, a Response
\* whose body is not, or a network failure
FetchOutcomes ==
  { Fulfilled("Response:json"), Fulfilled("Response:text"),
    Rejected("TypeError: Failed to fetch") }

----------------------------------------------------------------------------
(* The call *)

Init ==
  /\ \E b \in BasePaths : host = b.host /\ apiPath = b.apiPath
  /\ \E d \in InstanceDefaults : defaultConfig = Assign(BuiltinDefaults, d)
  /\ \E k \in InterceptorKinds : interceptorsRequest = k /\ interceptorsResponse = k
  /\ pc = "idle"
  /\ callArgs = [verb |-> "", url |-> "", data |-> Undefined, args |-> <<>>]
  /\ merged = EmptyObject
  /\ config = EmptyObject
  /\ aborted = FALSE
  /\ timer = "none"
  /\ fetchP = NoPromise
  /\ bodyP = NoPromise
  /\ raceP = NoPromise
  /\ reqP = NoPromise
  /\ jobs = <<>>
  /\ result = EmptyObject
  /\ events = <<>>
  /\ tbIn = EmptyObject
  /\ tbOut = [done |-> FALSE, threw |-> FALSE, config |-> EmptyObject]

facade == <<host, apiPath, defaultConfig, interceptorsRequest, interceptorsResponse>>
harness == <<tbIn, tbOut>>

\* verb(url, data, ...args): createRequest, request up to the return of
\* requestFunction. toBody may throw, and then request throws to the caller:
\* requestFunction is called before .catch is attached.
Request(verb, url, data, args) ==
  /\ pc = "idle"
  /\ LET m == requestMerge(createRequest(verb, url, data, args))
         c == ApplyInterceptorsRequest(m)
         tb == toBody(c)
     IN /\ callArgs' = [verb |-> verb.name, url |-> url, data |-> data, args |-> args]
        /\ merged' = m
        /\ IF tb.threw
           THEN /\ pc' = "thrown"
                /\ config' = c
                /\ events' = <<"interceptorsRequest", "toBody">>
                /\ UNCHANGED <<timer, fetchP, raceP, reqP>>
           ELSE /\ pc' = "pending"
                /\ config' = Assign(tb.config, [signal |-> "AbortSignal"])
                /\ events' = <<"interceptorsRequest", "toBody", "fetch">>
                /\ timer' = "armed"
                /\ fetchP' = Pending
                /\ raceP' = Pending
                /\ reqP' = Pending
  /\ UNCHANGED <<facade, aborted, bodyP, jobs, result, harness>>

\* fetch() settles; the reaction Promise.race registered on it is queued
TransportSettle(outcome) ==
  /\ fetchP.state = "pending"
  /\ jobs = <<>>
  /\ fetchP' = outcome
  /\ jobs' = <<"raceFetch">>
  /\ events' = Append(events, "settle")
  /\ UNCHANGED <<facade, pc, callArgs, merged, config, aborted, timer, bodyP, raceP,
                 reqP, result, harness>>

\* the setTimeout callback: controller.abort(); reject('request timeout').
\* A transport that honours the signal rejects what it has pending with an
\* AbortError inside abort(), before reject runs; one that does not is left
\* as it is.
TimerFire(honoursAbort) ==
  /\ timer = "armed"
  /\ jobs = <<>>
  /\ timer' = "fired"
  /\ aborted' = TRUE
  /\ LET killFetch == honoursAbort /\ fetchP.state = "pending"
         killBody == honoursAbort /\ bodyP.state = "pending"
     IN /\ fetchP' = IF killFetch THEN Rejected(AbortError) ELSE fetchP
        /\ bodyP' = IF killBody THEN Rejected(AbortError) ELSE bodyP
        /\ reqP' = IF killBody THEN Rejected(AbortError) ELSE reqP
        /\ jobs' = (IF killFetch THEN <<"raceFetch">> ELSE <<>>)
                   \o (IF killBody THEN <<"catch">> ELSE <<>>)
                   \o <<"raceTimeout">>
  /\ events' = Append(events, "timer")
  /\ UNCHANGED <<facade, pc, callArgs, merged, config, raceP, result, harness>>

\* response.json() settles: the body was JSON, or it was not
BodySettle ==
  /\ bodyP.state = "pending"
  /\ jobs = <<>>
  /\ LET p == IF raceP.value = "Response:json"
              THEN Fulfilled("json")
              ELSE Rejected("SyntaxError: Unexpected token < in JSON at position 0")
     IN bodyP' = p /\ reqP' = p
  /\ jobs' = <<"catch">>
  /\ UNCHANGED <<facade, pc, callArgs, merged, config, aborted, timer, fetchP, raceP,
                 result, events, harness>>

\* a reaction of Promise.race: the first promise to settle settles the race
RaceJob(p) ==
  IF raceP.state = "pending"
  THEN /\ raceP' = p
       /\ jobs' = Append(Tail(jobs), "then")
  ELSE /\ jobs' = Tail(jobs)
       /\ UNCHANGED raceP

\* .then((response) => ...) of requestFunction
ThenJob ==
  IF raceP.state = "rejected"
  THEN /\ reqP' = raceP
       /\ jobs' = Append(Tail(jobs), "catch")
       /\ UNCHANGED bodyP
  ELSE IF Has(config, "responseType") /\ config["responseType"] # "json"
  THEN /\ reqP' = Fulfilled(config["responseType"])
       /\ jobs' = Append(Tail(jobs), "catch")
       /\ UNCHANGED bodyP
  ELSE /\ bodyP' = Pending
       /\ jobs' = Tail(jobs)
       /\ UNCHANGED reqP

\* the value .catch passes on: the result, or { error, errorText }
Caught(p) ==
  IF p.state = "rejected"
  THEN [error |-> p.value, errorText |-> erroToText(p.value)]
  ELSE IF p.value = "json" THEN [code |-> "0"]
  ELSE (p.value :> "Promise")

\* .catch((error) => ...) and .then((res) => this.interceptorsResponse(...))
\* of request, run once requestFunction's promise has settled
CatchJob ==
  /\ result' = ApplyInterceptorsResponse(Assign([time |-> TimeRecord], Caught(reqP)), config)
  /\ pc' = "resolved"
  /\ events' = Append(events, "interceptorsResponse")
  /\ jobs' = Tail(jobs)

\* the head of the microtask queue runs
RunJob ==
  /\ jobs # <<>>
  /\ CASE Head(jobs) = "raceFetch" ->
            RaceJob(fetchP) /\ UNCHANGED <<pc, result, events, bodyP, reqP>>
       [] Head(jobs) = "raceTimeout" ->
            RaceJob(Rejected("request timeout")) /\ UNCHANGED <<pc, result, events, bodyP, reqP>>
       [] Head(jobs) = "then" ->
            ThenJob /\ UNCHANGED <<pc, result, events, raceP>>
       [] OTHER ->
            CatchJob /\ UNCHANGED <<raceP, bodyP, reqP>>
  /\ UNCHANGED <<facade, callArgs, merged, config, aborted, timer, fetchP, harness>>

\* the caller picks a verb entry point and its arguments
Call ==
  /\ pc = "idle"
  /\ \E verb \in Verbs, url \in CallUrls, data \in CallData,
        args \in SeqsUpTo(Fragments, MaxFragments) : Request(verb, url, data, args)

Next ==
  \/ Call
  \/ \E outcome \in FetchOutcomes : TransportSettle(outcome)
  \/ \E honoursAbort \in BOOLEAN : TimerFire(honoursAbort)
  \/ BodySettle
  \/ RunJob

Spec == Init /\ [][Next]_vars

----------------------------------------------------------------------------
(* toBody on its own: the configurations it may be given, and its result *)

RECURSIVE Chain(_)
\* an object nested d deep around one string: { kd: { ... { k1: 'c' } } }
Chain(d) == IF d = 0 THEN Str("c") ELSE Obj(<<KV("k" \o ToString(d), Chain(d - 1))>>)

\* a flat object of n numeric fields: { f1: 1, ..., fn: n }
Wide(n) == Obj([i \in 1..n |-> KV("f" \o ToString(i), Num(ToString(i)))])

DataSamples ==
  { Undefined, Null, Obj(<<>>),
    Obj(<<KV("id", Num("1000"))>>),
    Obj(<<KV("a", Undefined)>>),
    Obj(<<KV("f", Null)>>),
    Obj(<<KV("file", FileV("a.png")), KV("name", Str("n"))>>),
    Obj(<<KV("list", Arr(<<KV("0", Str("x")), KV("1", Str("y"))>>))>>),
    FormDataV(<<KV("file", FileV("a.png"))>>) }
  \cup {Chain(d) : d \in 1..MaxDepth}
  \cup {Wide(n) : n \in 1..MaxWidth}

HeaderSamples ==
  { EmptyObject,
    BuiltinDefaults.headers,
    ("Content-Type" :> application.form),
    ("content-type" :> application.json),
    ("Content-Type" :> "text/plain"),
    ("Content-Type" :> ""),
    ("Content-Type" :> application.form) @@ ("content-type" :> application.json),
    ("Content-type" :> application.json) @@ ("content-Type" :> application.form) }

Methods == {"GET", "POST", "PUT", "PATCH", "DELETE"}
UrlSamples == {"http://localhost/api/test", "http://localhost/api/test?id=1"}

\* a configuration with the optional keys data, headers and body present or not
ToBodyInputs ==
  { Assign(Assign(Assign([method |-> m, url |-> u], d), h), b) :
      m \in Methods, u \in UrlSamples,
      d \in {EmptyObject} \cup {[data |-> x] : x \in DataSamples},
      h \in {EmptyObject} \cup {[headers |-> x] : x \in HeaderSamples},
      b \in {EmptyObject, [body |-> BodyString("raw")]} }

InitToBody ==
  /\ host = ""
  /\ apiPath = ""
  /\ defaultConfig = BuiltinDefaults
  /\ interceptorsRequest = "identity"
  /\ interceptorsResponse = "identity"
  /\ pc = "idle"
  /\ callArgs = [verb |-> "", url |-> "", data |-> Undefined, args |-> <<>>]
  /\ merged = EmptyObject
  /\ config = EmptyObject
  /\ aborted = FALSE
  /\ timer = "none"
  /\ fetchP = NoPromise
  /\ bodyP = NoPromise
  /\ raceP = NoPromise
  /\ reqP = NoPromise
  /\ jobs = <<>>
  /\ result = EmptyObject
  /\ events = <<>>
  /\ tbIn \in ToBodyInputs
  /\ tbOut = [done |-> FALSE, threw |-> FALSE, config |-> EmptyObject]

\* config = toBody(config)
ApplyToBody ==
  /\ ~tbOut.done
  /\ LET r == toBody(tbIn)
     IN tbOut' = [done |-> TRUE, threw |-> r.threw, config |-> r.config]
  /\ UNCHANGED <<facade, pc, callArgs, merged, config, aborted, timer, fetchP, bodyP,
                 raceP, reqP, jobs, result, events, tbIn>>

NextToBody == ApplyToBody

SpecToBody == InitToBody /\ [][NextToBody]_vars

----------------------------------------------------------------------------
(* Properties *)

CountOf(seq, e) == Cardinality({i \in DOMAIN seq : seq[i] = e})

CountChar(str, ch) == Cardinality({i \in 1..Len(str) : SubSeq(str, i, i) = ch})

\* the timer fired while fetch() had not settled
TimerFiredFirst ==
  \E i \in DOMAIN events :
    events[i] = "timer" /\ \A j \in 1..(i - 1) : events[j] # "settle"

\* fetch() settled while the timer had not fired
SettledFirst ==
  \E i \in DOMAIN events :
    events[i] = "settle" /\ \A j \in 1..(i - 1) : events[j] # "timer"

\* the verb entry point of the call in progress
CalledVerb == CHOOSE v \in Verbs : v.name = callArgs.verb

\* what createRequest handed to request in the call in progress
CalledConfigs == createRequest(CalledVerb, callArgs.url, callArgs.data, callArgs.args)

\* the casings of ContentTypeKeys under which c has a non-empty header
NonEmptyCasings(c) ==
  {n \in DOMAIN ContentTypeKeys :
     /\ Has(c, "headers")
     /\ ContentTypeKeys[n] \in DOMAIN c["headers"]
     /\ c["headers"][ContentTypeKeys[n]] # ""}

\* C1: a call made with the default transport and the identity interceptors
\* never throws to its caller, whatever its method, headers and data: a
\* failure of body synthesis ends up in a resolved envelope.
C1_NeverThrows ==
  (interceptorsRequest = "identity" /\ interceptorsResponse = "identity")
    => pc # "thrown"

\* C2: when the timer fires before fetch() has settled, the signal is
\* signaled and the call, once resolved, carries error 'request timeout' and
\* the timeout text, whatever the transport does on being cancelled.
C2_TimeoutEnvelope ==
  TimerFiredFirst =>
    /\ aborted
    /\ pc = "resolved" =>
         /\ Has(result, "error") /\ result["error"] = "request timeout"
         /\ Has(result, "errorText") /\ result["errorText"] = TimeoutText

\* C3: every key of the configuration handed to the request interceptor has
\* the value of the highest layer that defines it, in the order built-in
\* defaults < instance defaultConfig < positional method/url/data < override
\* fragments left to right (the url compared before prefixing), and a bare
\* string fragment s gives the same configuration as { label: s }.
C3_LayerPrecedence ==
  pc # "idle" =>
    /\ LET layered == Assign(defaultConfig, CalledConfigs)
           url == layered["url"]
       IN merged = [layered EXCEPT
                      !["url"] = IF StartsWithHttp(url) THEN url ELSE baseURL \o url]
    /\ \A v \in Verbs, u \in CallUrls, d \in CallData :
         requestMerge(createRequest(v, u, d, <<StrFrag("tag")>>))
           = requestMerge(createRequest(v, u, d, <<ObjFrag([label |-> "tag"])>>))

C5_GetBodySynthesis ==
  (tbOut.done /\ tbIn["method"] = "GET") =>
    LET query == qsStringify(dataOf(tbIn))
        out == tbOut.config
    IN /\ ~tbOut.threw
       /\ query # "" =>
            /\ out["url"] = tbIn["url"] \o "?" \o query
            /\ CountChar(out["url"], "?") = CountChar(tbIn["url"], "?") + 1
       /\ (~Has(tbIn, "data") \/ dataOf(tbIn) \in {Undefined, Obj(<<>>)}) =>
            out["url"] = tbIn["url"]
       /\ query = "" => out["url"] = tbIn["url"]
       /\ Has(out, "body") <=> Has(tbIn, "body")
       /\ Has(tbIn, "body") => out["body"] = tbIn["body"]
       /\ Without(out, "url") = Without(tbIn, "url")

\* a GET configuration with nested data and a body of its own has been
\* through toBody: the query is appended and the body is still there
C5_Witness ==
  /\ tbOut.done
  /\ tbIn["method"] = "GET"
  /\ Has(tbIn, "data") /\ tbIn["data"] = Chain(2)
  /\ tbIn["url"] = "http://localhost/api/test"
  /\ tbOut.config["url"] = "http://localhost/api/test?k2%5Bk1%5D=c"
  /\ Has(tbOut.config, "body") /\ tbOut.config["body"] = BodyString("raw")

\* none of the four checked casings carries a recognized content type
NoRecognizedContentType(c) ==
  \A n \in DOMAIN ContentTypeKeys :
    ~ /\ Has(c, "headers")
      /\ ContentTypeKeys[n] \in DOMAIN c["headers"]
      /\ c["headers"][ContentTypeKeys[n]] \in {application.json, application.form}

\* one multipart entry per leaf field, nested keys flattened as outer[inner]
RECURSIVE LeafEntries(_, _)
LeafEntries(kids, key) ==
  IF kids = <<>> THEN <<>>
  ELSE LET h == Head(kids)
           k == IF key = "" THEN h.k ELSE key \o "[" \o h.k \o "]"
           here == IF h.n.t \in {"object", "array"}
                   THEN LeafEntries(h.n.kids, k)
                   ELSE << <<k, AppendedValue(h.n)>> >>
       IN here \o LeafEntries(Tail(kids), key)

\* C6: a non-GET call with a data object whose headers carry no recognized
\* content type (a missing, empty or unknown value included) gets a multipart
\* body with one entry per leaf field of data, and upload takes this path
\* whatever defaultConfig.headers holds.
C6_MultipartFallback ==
  /\ (/\ pc # "idle"
      /\ config["method"] # "GET"
      /\ NoRecognizedContentType(config)
      /\ dataOf(config).t = "object") =>
       /\ pc # "thrown"
       /\ Has(config, "body")
       /\ config["body"] = BodyFormData(LeafEntries(dataOf(config).kids, ""))
  /\ (/\ pc # "idle"
      /\ callArgs.verb = "upload"
      /\ callArgs.data.t = "object"
      /\ \A n \in DOMAIN callArgs.args : ~Has(labelToConfig(callArgs.args[n]), "headers")) =>
       /\ pc # "thrown"
       /\ Has(config, "body") /\ config["body"].kind = "FormData"

\* the value of the first non-empty header among the four casings, in order
FirstContentType(c) ==
  LET set == NonEmptyCasings(c)
  IN IF set = {} THEN ""
     ELSE c["headers"][ContentTypeKeys[CHOOSE n \in set : \A m \in set : n <= m]]

\* the value of the last non-empty header among the four casings, in order
LastContentType(c) ==
  LET set == NonEmptyCasings(c)
  IN IF set = {} THEN ""
     ELSE c["headers"][ContentTypeKeys[CHOOSE n \in set : \A m \in set : n >= m]]

\* C7: for a non-GET configuration the body encoder is chosen by the first
\* non-empty header among Content-Type, Content-type, content-Type,
\* content-type, in that order.
C7_FirstCasingWins ==
  (tbOut.done /\ tbIn["method"] # "GET") =>
    LET r == toBodyFun(FirstContentType(tbIn), dataOf(tbIn))
    IN /\ tbOut.threw = r.threw
       /\ ~r.threw => (Has(tbOut.config, "body") /\ tbOut.config["body"] = r.body)

\* C7 as amended: for a non-GET configuration the body encoder is chosen by
\* the last non-empty header among Content-Type, Content-type, content-Type,
\* content-type, in that order: a later casing overrides an earlier one.
C7_LastCasingWins ==
  (tbOut.done /\ tbIn["method"] # "GET") =>
    LET r == toBodyFun(LastContentType(tbIn), dataOf(tbIn))
    IN /\ tbOut.threw = r.threw
       /\ ~r.threw => (Has(tbOut.config, "body") /\ tbOut.config["body"] = r.body)

\* a POST with Content-Type form and content-type json has been through
\* toBody, and its body is the JSON text of its data
C7_Witness ==
  /\ tbOut.done
  /\ tbIn["method"] = "POST"
  /\ Has(tbIn, "headers")
  /\ tbIn["headers"] = ("Content-Type" :> application.form)
                         @@ ("content-type" :> application.json)
  /\ Has(tbIn, "data") /\ tbIn["data"] = Obj(<<KV("id", Num("1000"))>>)
  /\ ~tbOut.threw
  /\ tbOut.config["body"] = BodyString("{\"id\":1000}")

\* C8: when the call supplies a body, the body handed to the transport is
\* that body, for every method.
C8_BodyOverrideWins ==
  (pc \in {"pending", "resolved"} /\ Has(CalledConfigs, "body")) =>
    (Has(config, "body") /\ config["body"] = CalledConfigs["body"])

\* C8 as amended: a body supplied by the call reaches the transport
\* unchanged for method GET only; for every other method the body handed to
\* the transport is the one derived from data, whatever body was supplied.
C8_BodyFromData ==
  (pc \in {"pending", "resolved"} /\ Has(CalledConfigs, "body")) =>
    /\ Has(config, "body")
    /\ config["body"] = IF config["method"] = "GET"
                        THEN CalledConfigs["body"]
                        ELSE toBodyFun(contentTypeOf(config), dataOf(config)).body

\* a post with data and a body of its own is on its way to the transport
\* with the JSON text of the data as its body
C8_Witness ==
  /\ pc = "pending"
  /\ callArgs.verb = "post"
  /\ callArgs.data = Obj(<<KV("id", Num("1000"))>>)
  /\ Has(CalledConfigs, "body") /\ CalledConfigs["body"] = BodyString("raw")
  /\ Has(config, "body") /\ config["body"] = BodyString("{\"id\":1000}")

\* C9: in every call the request interceptor runs once, before body
\* synthesis and the transport call, its result is the configuration used
\* downstream, and the response interceptor runs once, last, its result
\* being what the call resolves to.
C9_PipelineOrder ==
  pc \in {"resolved", "thrown"} =>
    /\ CountOf(events, "interceptorsRequest") = 1
    /\ CountOf(events, "interceptorsResponse") = 1
    /\ Len(events) >= 4
    /\ SubSeq(events, 1, 3) = <<"interceptorsRequest", "toBody", "fetch">>
    /\ events[Len(events)] = "interceptorsResponse"
    /\ config = Assign(toBody(ApplyInterceptorsRequest(merged)).config,
                       [signal |-> "AbortSignal"])
    /\ result = ApplyInterceptorsResponse(Assign([time |-> TimeRecord], Caught(reqP)), config)

\* C10: when fetch() settles before the timer fires, the signal is never
\* signaled, neither before nor after the call has resolved.
C10_NoAbortAfterSettle == SettledFirst => ~aborted

====
